---- MODULE Spec2Model ----
(***************************************************************************)
(* Model of rnastructure/util/wrapper.py: the Wrapper class that validates *)
(* input and options, writes an input file, builds a command line, spawns  *)
(* an external program, waits for it with select() under a time budget and *)
(* hands the process to a per-tool result builder.                         *)
(*                                                                         *)
(* Python values are records [type, v] where v is str(value), so that      *)
(* '%s' % value is modelled by what it does and True differs from "True".  *)
(***************************************************************************)
EXTENDS Integers, Sequences, FiniteSets, TLC

\* ------------------------------------------------------------------ bounds
\* Largest number of entries of an options mapping given to a call.
MaxOpts == 2
\* Largest number of sequential calls made on one Wrapper instance.
MaxCalls == 2

\* ----------------------------------------------------------- Python values
PyNone == [type |-> "NoneType", v |-> "None"]
PyTrue == [type |-> "bool", v |-> "True"]
PyFalse == [type |-> "bool", v |-> "False"]
PyStr(s) == [type |-> "str", v |-> s]

\* str(value), the conversion '%s' % value applies.
Str(value) == value.v

\* bool(value) for the values of this model.
Truthy(value) == value \notin {PyNone, PyFalse, PyStr("")}

\* ------------------------------------------------------ validator helpers
is_number(arg) == FALSE

\* A variant of is_true that tests truthiness instead of identity with True.
is_true_Truthy(arg) == Truthy(arg)

is_true(arg) == arg = PyTrue

is_in(known, arg) == arg \in known

\* A validator of the option schema is one of the helpers above; the schema
\* stores which one, and for is_in the known values.
pattern(item, value) ==
    CASE item.fn = "is_number" -> is_number(value)
      [] item.fn = "is_true" -> is_true(value)
      [] item.fn = "is_in" -> is_in(item.known, value)

\* -------------------------------------------------------------- the inputs
\* Option names: two that the tool schemas below declare (one of them one
\* character long) and one that no schema declares.
Keys == {"x", "long", "u"}

Values == {PyTrue, PyFalse, PyStr("5")}

\* The class attribute `options` of a subclass, in its iteration order.  The
\* base class has the empty schema; the other two are tool subclasses.
Schemas ==
    { <<>>,
      << [key |-> "x", fn |-> "is_in", known |-> {PyStr("5")}],
         [key |-> "long", fn |-> "is_true", known |-> {}] >>,
      << [key |-> "long", fn |-> "is_number", known |-> {}],
         [key |-> "x", fn |-> "is_in", known |-> {PyStr("5"), PyTrue, PyFalse}] >> }

Programs == {PyNone, PyStr("RNAalifold")}
Filenames == {PyNone, PyStr("input.aln")}
Directories == {PyNone, PyStr("/work")}

\* os.getcwd() when the first call is made: the caller may stand anywhere,
\* also in the directory the instance was given.
StartDirectories == {PyStr("/home"), PyStr("/work")}

\* Exit statuses the external program may end with.
ExitStatuses == {0, 1}

\* What a tool's _program_failed_ may return: False, or an error banner.
FailureMessages == {PyFalse, PyStr("banner")}

\* What a tool's stdin hook may return: None, or content for the child.
StdinContents == {PyNone, PyStr("data")}

\* An options dictionary is the sequence of its items in iteration order;
\* its keys are distinct.
RECURSIVE ItemSeqs(_)
ItemSeqs(n) ==
    IF n = 0 THEN {<<>>}
    ELSE LET shorter == ItemSeqs(n - 1)
         IN shorter \cup
            { Append(s, [key |-> k, value |-> v]) :
                s \in {t \in shorter : Len(t) = n - 1},
                k \in Keys, v \in Values }

HasKey(opts, k) == \E i \in DOMAIN opts : opts[i].key = k

Get(opts, k) == opts[CHOOSE i \in DOMAIN opts : opts[i].key = k].value

DistinctKeys(opts) ==
    \A i, j \in DOMAIN opts : opts[i].key = opts[j].key => i = j

OptionMaps == {s \in ItemSeqs(MaxOpts) : DistinctKeys(s)}

\* ------------------------------------------------------------------- state
VARIABLES
    program,        \* class attribute `program` of the tool (None when unset)
    self_filename,  \* self._filename
    self_base,      \* self._base
    self_options,   \* the class attribute `options`: the option schema
    cwd,            \* the process-wide current directory, os.getcwd()
    dirs,           \* directories created by tempfile.mkdtemp()
    files,          \* input files created by open(self._filename, 'w')
    input_file,     \* the handle of the input file (none, open or closed) and
                    \* the number of runs of the tool's input_file hook
    pc,             \* position of the caller inside __call__
    options,        \* local `options` of __call__
    temp_dir,       \* local `temp_dir`
    cur_dir,        \* local `cur_dir`
    arguments,      \* local `arguments`, the command line
    content,        \* local `content`, what the stdin hook returned
    stdin,          \* local `stdin`: None or PIPE
    stdin_pipe,     \* the child's standard-input pipe: none, open or closed
    written,        \* what was written to the child's standard input
    proc,           \* the child process: none, running, exited or killed
    exit_status,    \* the status the child exited with, <<>> while it has none
    stderr_ready,   \* the child's stderr is readable (data, or end of file)
    stdout_data,    \* the child wrote to its stdout
    rlist,          \* what select() returned (rlist, wlist and xlist together),
                    \* Unbound before select() has returned
    code,           \* local `code`: process.returncode, <<>> for None
    error_message,  \* local `error_message`
    results_calls,  \* the calls of the results hook, with their arguments
    spawned,        \* the Popen calls that started a process, with their arguments
    outcome,        \* how the call ended: the value returned or the exception
    pre,            \* the ambient state just before the call in progress
    raw_ok,         \* what the tool's validate_input returns for the raw input
    calls,          \* number of calls started on this instance
    hook_calls,     \* what generate_options and generate_arguments were
                    \* called with in this call
    threads,        \* per thread: where its __call__ stands and its locals
    ops,            \* the file writes and Popen calls of the threads, with
                    \* the current directory they ran in
    overlapped      \* some call has started while another was in progress

vars == << program, self_filename, self_base, self_options, cwd, dirs, files,
           input_file,
           pc, options, temp_dir, cur_dir, arguments, content, stdin,
           stdin_pipe, written, proc, exit_status, stderr_ready, stdout_data,
           rlist, code, error_message, results_calls, spawned, outcome, pre, raw_ok,
           calls, hook_calls, threads, ops, overlapped >>

\* The state of concurrent invocations, which the single caller never touches.
conc == << threads, ops, overlapped >>

config == << program, self_filename, self_base, self_options >>
child == << proc, exit_status, stderr_ready, stdout_data >>

\* self.known_options, set in __init__ from the schema's keys.
known_options == {self_options[i].key : i \in DOMAIN self_options}

\* ------------------------------------------------------------- validation
\* ', '.join(keys)
RECURSIVE Join(_)
Join(keys) ==
    IF keys = <<>> THEN ""
    ELSE IF Len(keys) = 1 THEN keys[1]
    ELSE keys[1] \o ", " \o Join(Tail(keys))

\* The keys of a dictionary, in iteration order.
KeysOf(opts) == [i \in DOMAIN opts |-> opts[i].key]

NoError == [exc |-> "none", text |-> ""]

\* The second loop of validate_options over the schema items from position i
\* on: the first key of the schema that is in the options with a value its
\* pattern rejects raises InvalidOptionError.
RECURSIVE CheckValues(_, _)
CheckValues(opts, i) ==
    IF i > Len(self_options) THEN NoError
    ELSE LET item == self_options[i]
         IN IF HasKey(opts, item.key) /\ ~pattern(item, Get(opts, item.key))
            THEN [exc |-> "InvalidOptionError",
                  text |-> "Key " \o item.key \o " has invalid value "
                           \o Str(Get(opts, item.key))]
            ELSE CheckValues(opts, i + 1)

\* A variant of validate_options without the check for unknown keys.
validate_options_NoUnknownCheck(opts) == CheckValues(opts, 1)

\* A variant of validate_options that reports the first unknown key only.
validate_options_FirstUnknownOnly(opts) ==
    LET extra_keys == SelectSeq(KeysOf(opts), LAMBDA k : k \notin known_options)
    IN IF extra_keys # <<>>
       THEN [exc |-> "UnknownOptionError",
             text |-> "Options: " \o extra_keys[1] \o " are unknown."]
       ELSE CheckValues(opts, 1)

\* validate_options: the exception it raises, or NoError when it returns True.
validate_options(opts) ==
    LET extra_keys == SelectSeq(KeysOf(opts), LAMBDA k : k \notin known_options)
    IN IF extra_keys # <<>>
       THEN [exc |-> "UnknownOptionError",
             text |-> "Options: " \o Join(extra_keys) \o " are unknown."]
       ELSE CheckValues(opts, 1)

\* A variant of validate that checks the options before the input.
validate_OptionsFirst(input_ok, opts) ==
    IF validate_options(opts).exc # "none"
    THEN validate_options(opts)
    ELSE IF ~input_ok
    THEN [exc |-> "InvalidInputError", text |-> "Input did not validate"]
    ELSE NoError

\* validate: the input check comes first; input_ok is what the tool's
\* validate_input returns for the raw input (the default returns True).
validate(input_ok, opts) ==
    IF ~input_ok
    THEN [exc |-> "InvalidInputError", text |-> "Input did not validate"]
    ELSE validate_options(opts)

\* ------------------------------------------------------- argument building
\* generate_options: for each item the flag, then the value unless it is True.
RECURSIVE generate_options(_, _)
generate_options(filename, opts) ==
    IF opts = <<>> THEN <<>>
    ELSE LET key == opts[1].key
             value == opts[1].value
             opt == IF Len(key) = 1 THEN "-" ELSE "--"
             flag == PyStr(opt \o Str(value))
         IN (IF ~is_true(value) THEN <<flag, value>> ELSE <<flag>>)
            \o generate_options(filename, Tail(opts))

\* generate_arguments: the positional arguments; the default is the filename.
generate_arguments(filename, opts) == <<filename>>

\* A variant of generate_program_arguments that puts the positional
\* arguments before the options.
generate_program_arguments_InputsFirst(filename, opts) ==
    LET option_tokens == generate_options(filename, opts)
        inputs == generate_arguments(filename, option_tokens)
    IN inputs \o option_tokens

generate_program_arguments(filename, opts) ==
    LET option_tokens == generate_options(filename, opts)
        inputs == generate_arguments(filename, option_tokens)
    IN (IF option_tokens # <<>> THEN option_tokens ELSE <<>>)
       \o (IF inputs # <<>> THEN inputs ELSE <<>>)

\* A dict and a list as a hook receives them.
PyDict(items) == [type |-> "dict", v |-> items]
PyList(items) == [type |-> "list", v |-> items]

\* Neither hook has been called.
NoHookCalls == [generate_options |-> <<>>, generate_arguments |-> <<>>]

\* A variant of HookCalls in which generate_arguments gets the caller's
\* mapping.
HookCalls_Mapping(filename, opts) ==
    [generate_options |-> << [filename |-> filename, options |-> PyDict(opts)] >>,
     generate_arguments |-> << [filename |-> filename, options |-> PyDict(opts)] >>]

\* Lines 158-159: what the two hooks are called with.  Line 158 rebinds the
\* name `options` to the list generate_options returned, and line 159
\* passes that name on.
HookCalls(filename, opts) ==
    [generate_options |-> << [filename |-> filename, options |-> PyDict(opts)] >>,
     generate_arguments |->
         << [filename |-> filename,
             options |-> PyList(generate_options(filename, opts))] >>]

\* ---------------------------------------------------------------- outcomes
\* The local rlist before select() has returned.
Unbound == <<"unbound">>

\* subprocess.PIPE
PIPE == [type |-> "int", v |-> "-1"]

\* hasattr(value, 'close'): true of file objects only.
HasClose(value) == value.type = "file"

\* What the results hook of a tool may return.
Results == {PyStr("structure"), PyNone}

NoOutcome ==
    [kind |-> "none", exc |-> "", text |-> "", program |-> PyNone,
     code |-> <<>>, message |-> PyNone, value |-> PyNone]

\* raise exc(text)
Raised(exc, text) == [NoOutcome EXCEPT !.kind = "raised", !.exc = exc, !.text = text]

\* raise ProgramFailedError(msg % (self.program, code, error_message))
ProgramFailed(prog, status, message) ==
    [NoOutcome EXCEPT !.kind = "raised", !.exc = "ProgramFailedError",
                      !.program = prog, !.code = status, !.message = message]

\* return value
Returned(value) == [NoOutcome EXCEPT !.kind = "returned", !.value = value]

\* tempfile.mkdtemp(): a directory that did not exist before.
mkdtemp == PyStr("/tmp/tmp" \o ToString(Cardinality(dirs) + 1))

\* No input file has been opened and the input_file hook has not run.
NoInputFile == [handle |-> "none", runs |-> 0]

\* The threads that call a tool at the same time, each on its own instance.
Threads == {"t1", "t2"}

\* self._base of each thread's instance: each was given a directory of its
\* own, so the working directories differ.
ThreadBase == [t \in Threads |-> IF t = "t1" THEN PyStr("/work") ELSE PyStr("/scratch")]

\* A thread outside __call__.
IdleThread == [pc |-> "idle", temp_dir |-> PyNone, cur_dir |-> PyNone, calls |-> 0]

\* ------------------------------------------------------------ initial state
Init ==
    /\ program \in Programs
    /\ self_filename \in Filenames
    /\ self_base \in Directories
    /\ self_options \in Schemas
    /\ cwd \in StartDirectories
    /\ dirs = {}
    /\ files = {}
    /\ input_file = NoInputFile
    /\ pc = "idle"
    /\ options = <<>>
    /\ temp_dir = PyNone
    /\ cur_dir = PyNone
    /\ arguments = <<>>
    /\ content = PyNone
    /\ stdin = PyNone
    /\ stdin_pipe = "none"
    /\ written = PyNone
    /\ proc = "none"
    /\ exit_status = <<>>
    /\ stderr_ready = FALSE
    /\ stdout_data = FALSE
    /\ rlist = Unbound
    /\ code = <<>>
    /\ error_message = PyNone
    /\ results_calls = <<>>
    /\ spawned = <<>>
    /\ outcome = NoOutcome
    /\ pre = [cwd |-> cwd, dirs |-> {}, files |-> {}]
    /\ raw_ok = TRUE
    /\ calls = 0
    /\ hook_calls = NoHookCalls
    /\ threads = [t \in Threads |-> IdleThread]
    /\ ops = {}
    /\ overlapped = FALSE

\* The call ends by raising: nothing else of the call's state changes.
Raise(exc, text) ==
    /\ outcome' = Raised(exc, text)
    /\ pc' = "done"

\* ----------------------------------------------------------------- __call__
\* A variant of Call that validates before it checks that a program is set.
Call_ValidateFirst(opts, input_ok) ==
    /\ pc = "idle"
    /\ calls < MaxCalls
    /\ calls' = calls + 1
    /\ pre' = [cwd |-> cwd, dirs |-> dirs, files |-> files]
    /\ options' = opts
    /\ raw_ok' = input_ok
    /\ UNCHANGED << config, conc, hook_calls, cwd, files, input_file, arguments, content, stdin,
                    stdin_pipe, written, child, rlist, code, error_message,
                    results_calls, spawned >>
    /\ LET v == validate(input_ok, opts)
       IN IF v.exc # "none"
          THEN /\ Raise(v.exc, v.text)
               /\ UNCHANGED << temp_dir, cur_dir, dirs >>
          ELSE IF ~Truthy(program)
          THEN /\ Raise("ValueError", "Must define a program to run.")
               /\ UNCHANGED << temp_dir, cur_dir, dirs >>
          ELSE /\ temp_dir' = IF Truthy(self_base) THEN self_base ELSE mkdtemp
               /\ dirs' = IF Truthy(self_base) THEN dirs ELSE dirs \cup {mkdtemp}
               /\ cur_dir' = cwd
               /\ outcome' = NoOutcome
               /\ pc' = "chdir"

\* Lines 200-217: a call; the program check, validation, the working
\* directory and the current directory.  A call without options has the
\* empty mapping (options or {}).
Call(opts, input_ok) ==
    /\ pc = "idle"
    /\ calls < MaxCalls
    /\ calls' = calls + 1
    /\ pre' = [cwd |-> cwd, dirs |-> dirs, files |-> files]
    /\ options' = opts
    /\ raw_ok' = input_ok
    /\ UNCHANGED << config, conc, hook_calls, cwd, files, input_file, arguments, content, stdin, stdin_pipe,
                    written, child, rlist, code, error_message, results_calls,
                    spawned >>
    /\ IF ~Truthy(program)
       THEN /\ Raise("ValueError", "Must define a program to run.")
            /\ UNCHANGED << temp_dir, cur_dir, dirs >>
       ELSE LET v == validate(input_ok, opts)
            IN IF v.exc # "none"
               THEN /\ Raise(v.exc, v.text)
                    /\ UNCHANGED << temp_dir, cur_dir, dirs >>
               ELSE /\ temp_dir' = IF Truthy(self_base) THEN self_base ELSE mkdtemp
                    /\ dirs' = IF Truthy(self_base) THEN dirs ELSE dirs \cup {mkdtemp}
                    /\ cur_dir' = cwd
                    /\ outcome' = NoOutcome
                    /\ pc' = "chdir"

\* The call is over: the caller has its value or its exception, the frame
\* of __call__ with its locals is gone, and the instance can be called again.
Return ==
    /\ pc = "done"
    /\ pc' = "idle"
    /\ options' = <<>>
    /\ temp_dir' = PyNone
    /\ cur_dir' = PyNone
    /\ arguments' = <<>>
    /\ content' = PyNone
    /\ stdin' = PyNone
    /\ stdin_pipe' = "none"
    /\ written' = PyNone
    /\ proc' = "none"
    /\ exit_status' = <<>>
    /\ stderr_ready' = FALSE
    /\ stdout_data' = FALSE
    /\ rlist' = Unbound
    /\ code' = <<>>
    /\ error_message' = PyNone
    /\ results_calls' = <<>>
    /\ spawned' = <<>>
    /\ outcome' = NoOutcome
    /\ raw_ok' = TRUE
    /\ input_file' = NoInputFile
    /\ hook_calls' = NoHookCalls
    /\ UNCHANGED << config, conc, cwd, dirs, files, pre, calls >>

\* Line 220: os.chdir(temp_dir).
Chdir ==
    /\ pc = "chdir"
    /\ cwd' = temp_dir
    /\ pc' = "input"
    /\ UNCHANGED << config, conc, hook_calls, dirs, files, options, temp_dir, cur_dir, arguments,
                    content, stdin, stdin_pipe, written, child, rlist, code,
                    error_message, results_calls, spawned, outcome, pre, raw_ok, input_file, calls >>

\* Line 220 when the caller's directory does not exist: os.chdir raises.
ChdirFails ==
    /\ pc = "chdir"
    /\ temp_dir = self_base
    /\ Raise("OSError", "chdir")
    /\ UNCHANGED << config, conc, hook_calls, cwd, dirs, files, options, temp_dir, cur_dir,
                    arguments, content, stdin, stdin_pipe, written, child,
                    rlist, code, error_message, results_calls, spawned, pre, raw_ok, input_file,
                    calls >>

\* Line 221: no filename is configured: the input file is skipped.
NoInput ==
    /\ pc = "input"
    /\ self_filename = PyNone
    /\ pc' = "arguments"
    /\ UNCHANGED << config, conc, hook_calls, cwd, dirs, files, options, temp_dir, cur_dir,
                    arguments, content, stdin, stdin_pipe, written, child,
                    rlist, code, error_message, results_calls, spawned, outcome,
                    pre, raw_ok, input_file, calls >>

\* Line 222: open(self._filename, 'w').  The name is relative, so the file
\* is created in the current directory.
OpenInput ==
    /\ pc = "input"
    /\ self_filename # PyNone
    /\ files' = files \cup {[dir |-> cwd, name |-> self_filename]}
    /\ input_file' = [input_file EXCEPT !.handle = "open"]
    /\ pc' = "write_input"
    /\ UNCHANGED << config, conc, hook_calls, cwd, dirs, options, temp_dir, cur_dir, arguments,
                    content, stdin, stdin_pipe, written, child, rlist, code,
                    error_message, results_calls, spawned, outcome, pre, raw_ok,
                    calls >>

\* Line 222: open() raises, nothing is created.
OpenFails ==
    /\ pc = "input"
    /\ self_filename # PyNone
    /\ Raise("IOError", "open")
    /\ UNCHANGED << config, conc, hook_calls, cwd, dirs, files, options, temp_dir, cur_dir,
                    arguments, content, stdin, stdin_pipe, written, child,
                    rlist, code, error_message, results_calls, spawned, pre,
                    raw_ok, input_file, calls >>

\* Lines 222-223: the tool's input_file hook writes the raw input; leaving
\* the with statement closes the file.
WriteInput ==
    /\ pc = "write_input"
    /\ input_file' = [handle |-> "closed", runs |-> input_file.runs + 1]
    /\ pc' = "arguments"
    /\ UNCHANGED << config, conc, hook_calls, cwd, dirs, files, options, temp_dir, cur_dir,
                    arguments, content, stdin, stdin_pipe, written, child,
                    rlist, code, error_message, results_calls, spawned, outcome,
                    pre, raw_ok, calls >>

\* Line 223: the input_file hook raises; the with statement closes the file
\* and the exception leaves __call__.
InputFileFails ==
    /\ pc = "write_input"
    /\ input_file' = [handle |-> "closed", runs |-> input_file.runs + 1]
    /\ Raise("Exception", "input_file")
    /\ UNCHANGED << config, conc, hook_calls, cwd, dirs, files, options, temp_dir, cur_dir,
                    arguments, content, stdin, stdin_pipe, written, child,
                    rlist, code, error_message, results_calls, spawned, pre,
                    raw_ok, calls >>

\* Lines 226-229: the command line.
GenerateArguments ==
    /\ pc = "arguments"
    /\ arguments' = <<program>> \o generate_program_arguments(self_filename, options)
    /\ hook_calls' = HookCalls(self_filename, options)
    /\ pc' = "stdin"
    /\ UNCHANGED << config, conc, cwd, dirs, files, options, temp_dir, cur_dir,
                    content, stdin, stdin_pipe, written, child, rlist, code,
                    error_message, results_calls, spawned, outcome, pre, raw_ok, input_file, calls >>

\* A variant of StdinHook that always asks for a pipe.
StdinHook_AlwaysPipe(c) ==
    /\ pc = "stdin"
    /\ content' = c
    /\ stdin' = PIPE
    /\ pc' = "spawn"
    /\ UNCHANGED << config, conc, hook_calls, cwd, dirs, files, options, temp_dir, cur_dir,
                    arguments, stdin_pipe, written, child, rlist, code,
                    error_message, results_calls, spawned, outcome, pre, raw_ok,
                    input_file, calls >>

\* Lines 231-234: the tool's stdin hook decides whether the child gets a pipe.
StdinHook(c) ==
    /\ pc = "stdin"
    /\ content' = c
    /\ stdin' = IF c # PyNone THEN PIPE ELSE PyNone
    /\ pc' = "spawn"
    /\ UNCHANGED << config, conc, hook_calls, cwd, dirs, files, options, temp_dir, cur_dir,
                    arguments, stdin_pipe, written, child, rlist, code,
                    error_message, results_calls, spawned, outcome, pre, raw_ok, input_file, calls >>

\* Line 231: the stdin hook raises.
StdinHookFails ==
    /\ pc = "stdin"
    /\ Raise("Exception", "stdin")
    /\ UNCHANGED << config, conc, hook_calls, cwd, dirs, files, options, temp_dir, cur_dir,
                    arguments, content, stdin, stdin_pipe, written, child,
                    rlist, code, error_message, results_calls, spawned, pre, raw_ok, input_file,
                    calls >>

\* Popen passes the argument list to execvp, which takes strings only.
AllStrings(args) == \A i \in DOMAIN args : args[i].type = "str"

\* Lines 235-237: Popen starts the child, with a stdin pipe if stdin is PIPE.
Spawn ==
    /\ pc = "spawn"
    /\ AllStrings(arguments)
    /\ proc' = "running"
    /\ exit_status' = <<>>
    /\ stderr_ready' = FALSE
    /\ stdout_data' = FALSE
    /\ spawned' = Append(spawned, [args |-> arguments, stdin |-> stdin, cwd |-> cwd])
    /\ stdin_pipe' = IF stdin = PIPE THEN "open" ELSE "none"
    /\ pc' = IF content # PyNone THEN "write_stdin" ELSE "select"
    /\ UNCHANGED << config, conc, hook_calls, cwd, dirs, files, options, temp_dir, cur_dir,
                    arguments, content, stdin, written, rlist, code,
                    error_message, results_calls, outcome, pre, raw_ok, input_file, calls >>

\* Line 235: Popen raises: TypeError for an argument that is no string,
\* OSError when the program cannot be executed.
SpawnFails ==
    /\ pc = "spawn"
    /\ IF AllStrings(arguments)
       THEN Raise("OSError", "Popen")
       ELSE Raise("TypeError", "Popen")
    /\ UNCHANGED << config, conc, hook_calls, cwd, dirs, files, options, temp_dir, cur_dir,
                    arguments, content, stdin, stdin_pipe, written, child,
                    rlist, code, error_message, results_calls, spawned, pre, raw_ok, input_file,
                    calls >>

\* Lines 239-240: process.stdin.write(content).
WriteStdin ==
    /\ pc = "write_stdin"
    /\ written' = content
    /\ pc' = "select"
    /\ UNCHANGED << config, conc, hook_calls, cwd, dirs, files, options, temp_dir, cur_dir,
                    arguments, content, stdin, stdin_pipe, child, rlist, code,
                    error_message, results_calls, spawned, outcome, pre, raw_ok, input_file, calls >>

\* Line 240: the write raises (the child closed its end of the pipe).
WriteStdinFails ==
    /\ pc = "write_stdin"
    /\ Raise("IOError", "write")
    /\ UNCHANGED << config, conc, hook_calls, cwd, dirs, files, options, temp_dir, cur_dir,
                    arguments, content, stdin, stdin_pipe, written, child,
                    rlist, code, error_message, results_calls, spawned, pre, raw_ok, input_file,
                    calls >>

\* Lines 243-245: select([stderr], [], [stdout, stderr], time) returns because
\* stderr is readable.  Data on stdout alone does not wake it: stdout is
\* watched for exceptional conditions only.
SelectReady ==
    /\ pc = "select"
    /\ stderr_ready
    /\ rlist' = <<"stderr">>
    /\ pc' = "restore"
    /\ UNCHANGED << config, conc, hook_calls, cwd, dirs, files, options, temp_dir, cur_dir,
                    arguments, content, stdin, stdin_pipe, written, child, code,
                    error_message, results_calls, spawned, outcome, pre, raw_ok, input_file, calls >>

\* Lines 243-245: the time budget elapses with nothing ready.
SelectTimeout ==
    /\ pc = "select"
    /\ ~stderr_ready
    /\ rlist' = <<>>
    /\ pc' = "restore"
    /\ UNCHANGED << config, conc, hook_calls, cwd, dirs, files, options, temp_dir, cur_dir,
                    arguments, content, stdin, stdin_pipe, written, child, code,
                    error_message, results_calls, spawned, outcome, pre, raw_ok, input_file, calls >>

\* A variant of Restore that leaves the current directory where it is.
Restore_NoChdir ==
    /\ pc = "restore"
    /\ cwd' = cwd
    /\ stdin_pipe' = IF HasClose(stdin) THEN "closed" ELSE stdin_pipe
    /\ pc' = "check"
    /\ UNCHANGED << config, conc, hook_calls, dirs, files, options, temp_dir, cur_dir, arguments,
                    content, stdin, written, child, rlist, code, error_message,
                    results_calls, spawned, outcome, pre, raw_ok, input_file, calls >>

\* Lines 246-249: back to the recorded directory; the local stdin is closed
\* if it has a close method.
Restore ==
    /\ pc = "restore"
    /\ cwd' = cur_dir
    /\ stdin_pipe' = IF HasClose(stdin) THEN "closed" ELSE stdin_pipe
    /\ pc' = "check"
    /\ UNCHANGED << config, conc, hook_calls, dirs, files, options, temp_dir, cur_dir, arguments,
                    content, stdin, written, child, rlist, code, error_message,
                    results_calls, spawned, outcome, pre, raw_ok, input_file, calls >>

\* A variant of TimedOut that starts the program again, once, instead of
\* raising.
TimedOut_Retry ==
    /\ pc = "check"
    /\ rlist = <<>>
    /\ proc' = IF proc = "running" THEN "killed" ELSE proc
    /\ stderr_ready' = TRUE
    /\ IF Len(spawned) < 2
       THEN /\ pc' = "spawn"
            /\ outcome' = outcome
       ELSE Raise("ProgramTimeOutError", "Program " \o Str(program) \o " timed out")
    /\ UNCHANGED << config, conc, hook_calls, cwd, dirs, files, options, temp_dir, cur_dir,
                    arguments, content, stdin, stdin_pipe, written, exit_status,
                    stdout_data, rlist, code, error_message, results_calls,
                    spawned, pre, raw_ok, input_file, calls >>

\* A variant of TimedOut that raises without killing the child.
TimedOut_NoKill ==
    /\ pc = "check"
    /\ rlist = <<>>
    /\ Raise("ProgramTimeOutError", "Program " \o Str(program) \o " timed out")
    /\ UNCHANGED << config, conc, hook_calls, cwd, dirs, files, options, temp_dir, cur_dir,
                    arguments, content, stdin, stdin_pipe, written, child,
                    rlist, code, error_message, results_calls, spawned, pre,
                    raw_ok, input_file, calls >>

\* Lines 251-253: nothing was ready: kill the child and raise.
TimedOut ==
    /\ pc = "check"
    /\ rlist = <<>>
    /\ proc' = IF proc = "running" THEN "killed" ELSE proc
    /\ stderr_ready' = TRUE
    /\ Raise("ProgramTimeOutError", "Program " \o Str(program) \o " timed out")
    /\ UNCHANGED << config, conc, hook_calls, cwd, dirs, files, options, temp_dir, cur_dir,
                    arguments, content, stdin, stdin_pipe, written, exit_status,
                    stdout_data, rlist, code, error_message, results_calls,
                    spawned, pre, raw_ok, input_file, calls >>

\* process.poll(): the exit status if the child has exited, None otherwise.
poll == IF proc = "exited" THEN exit_status ELSE <<>>

\* `code or error_message`
Failed(status, message) == (status # <<>> /\ status[1] # 0) \/ Truthy(message)

\* Lines 255-260: the exit status and the tool's failure predicate; message
\* is what _program_failed_ returns (the default returns False).
Completed(message) ==
    /\ pc = "check"
    /\ rlist # <<>>
    /\ rlist # Unbound
    /\ code' = poll
    /\ error_message' = message
    /\ IF Failed(poll, message)
       THEN /\ outcome' = ProgramFailed(program, poll, message)
            /\ pc' = "done"
       ELSE /\ outcome' = outcome
            /\ pc' = "results"
    /\ UNCHANGED << config, conc, hook_calls, cwd, dirs, files, options, temp_dir, cur_dir,
                    arguments, content, stdin, stdin_pipe, written, child,
                    rlist, results_calls, spawned, pre, raw_ok, input_file, calls >>

\* A variant of BuildResults that hands the hook the current directory
\* instead of the working directory.
BuildResults_CurrentDirectory(r) ==
    /\ pc = "results"
    /\ results_calls' = Append(results_calls,
                               [process |-> [state |-> proc, returncode |-> code],
                                temp_dir |-> cwd,
                                filename |-> self_filename,
                                returned |-> r])
    /\ outcome' = Returned(r)
    /\ pc' = "done"
    /\ UNCHANGED << config, conc, hook_calls, cwd, dirs, files, options, temp_dir, cur_dir,
                    arguments, content, stdin, stdin_pipe, written, child,
                    rlist, code, error_message, spawned, pre, raw_ok, input_file, calls >>

\* Line 263: the tool's results hook builds the value the call returns.
BuildResults(r) ==
    /\ pc = "results"
    /\ results_calls' = Append(results_calls,
                               [process |-> [state |-> proc, returncode |-> code],
                                temp_dir |-> temp_dir,
                                filename |-> self_filename,
                                returned |-> r])
    /\ outcome' = Returned(r)
    /\ pc' = "done"
    /\ UNCHANGED << config, conc, hook_calls, cwd, dirs, files, options, temp_dir, cur_dir,
                    arguments, content, stdin, stdin_pipe, written, child,
                    rlist, code, error_message, spawned, pre, raw_ok, input_file, calls >>

\* -------------------------------------------------------- the child process
\* The child exits: its status becomes available and its stderr reaches end
\* of file, which makes it readable.
ProcExit(status) ==
    /\ proc = "running"
    /\ proc' = "exited"
    /\ exit_status' = <<status>>
    /\ stderr_ready' = TRUE
    /\ UNCHANGED << config, conc, hook_calls, cwd, dirs, files, pc, options, temp_dir, cur_dir,
                    arguments, content, stdin, stdin_pipe, written, stdout_data,
                    rlist, code, error_message, results_calls, spawned, outcome,
                    pre, raw_ok, input_file, calls >>

\* The child writes to its stderr and keeps running.
ProcWriteStderr ==
    /\ proc = "running"
    /\ ~stderr_ready
    /\ stderr_ready' = TRUE
    /\ UNCHANGED << config, conc, hook_calls, cwd, dirs, files, pc, options, temp_dir, cur_dir,
                    arguments, content, stdin, stdin_pipe, written, proc,
                    exit_status, stdout_data, rlist, code, error_message,
                    results_calls, spawned, outcome, pre, raw_ok, input_file, calls >>

\* The child writes to its stdout and keeps running.
ProcWriteStdout ==
    /\ proc = "running"
    /\ ~stdout_data
    /\ stdout_data' = TRUE
    /\ UNCHANGED << config, conc, hook_calls, cwd, dirs, files, pc, options, temp_dir, cur_dir,
                    arguments, content, stdin, stdin_pipe, written, proc,
                    exit_status, stderr_ready, rlist, code, error_message,
                    results_calls, spawned, outcome, pre, raw_ok, input_file, calls >>

\* ------------------------------------------------------- the specification
Next ==
    \/ \E opts \in OptionMaps, input_ok \in BOOLEAN : Call(opts, input_ok)
    \/ Return
    \/ Chdir
    \/ ChdirFails
    \/ NoInput
    \/ OpenInput
    \/ OpenFails
    \/ WriteInput
    \/ InputFileFails
    \/ GenerateArguments
    \/ \E c \in StdinContents : StdinHook(c)
    \/ StdinHookFails
    \/ Spawn
    \/ SpawnFails
    \/ WriteStdin
    \/ WriteStdinFails
    \/ SelectReady
    \/ SelectTimeout
    \/ Restore
    \/ TimedOut
    \/ \E message \in FailureMessages : Completed(message)
    \/ \E r \in Results : BuildResults(r)
    \/ \E status \in ExitStatuses : ProcExit(status)
    \/ ProcWriteStderr
    \/ ProcWriteStdout

Spec == Init /\ [][Next]_vars

\* ===================================================== concurrent invocations
\* Two threads of one process call __call__, each on its own instance; the
\* current directory is the one of the process, and each call finishes
\* normally (no step raises).

\* The variables of the single caller, apart from the process-wide ones.
single == << config, input_file, pc, options, temp_dir, cur_dir, arguments,
             content, stdin, stdin_pipe, written, child, rlist, code,
             error_message, results_calls, spawned, outcome, pre, raw_ok, calls,
             hook_calls >>

\* Lines 200-217: thread t enters __call__: the checks pass, the working
\* directory is chosen and os.getcwd() is recorded.
T_Enter(t) ==
    /\ threads[t].pc = "idle"
    /\ threads[t].calls < MaxCalls
    /\ threads' = [threads EXCEPT ![t] =
                      [pc |-> "chdir",
                       temp_dir |-> IF Truthy(ThreadBase[t]) THEN ThreadBase[t] ELSE mkdtemp,
                       cur_dir |-> cwd,
                       calls |-> @.calls + 1]]
    /\ dirs' = IF Truthy(ThreadBase[t]) THEN dirs ELSE dirs \cup {mkdtemp}
    /\ overlapped' = (overlapped \/ \E u \in Threads \ {t} : threads[u].pc # "idle")
    /\ UNCHANGED << single, cwd, files, ops >>

\* Line 220: os.chdir(temp_dir) changes the directory of the whole process.
T_Chdir(t) ==
    /\ threads[t].pc = "chdir"
    /\ cwd' = threads[t].temp_dir
    /\ threads' = [threads EXCEPT ![t].pc = "input"]
    /\ UNCHANGED << single, dirs, files, ops, overlapped >>

\* Lines 221-223: the input file is opened by its relative name, that is in
\* whatever the current directory is now.
T_WriteInput(t) ==
    /\ threads[t].pc = "input"
    /\ files' = files \cup {[dir |-> cwd, name |-> self_filename]}
    /\ ops' = ops \cup {[thread |-> t, op |-> "write", cwd |-> cwd,
                         temp_dir |-> threads[t].temp_dir]}
    /\ threads' = [threads EXCEPT ![t].pc = "spawn"]
    /\ UNCHANGED << single, cwd, dirs, overlapped >>

\* Lines 226-237: Popen starts the child in whatever the current directory
\* is now.
T_Spawn(t) ==
    /\ threads[t].pc = "spawn"
    /\ ops' = ops \cup {[thread |-> t, op |-> "spawn", cwd |-> cwd,
                         temp_dir |-> threads[t].temp_dir]}
    /\ threads' = [threads EXCEPT ![t].pc = "select"]
    /\ UNCHANGED << single, cwd, dirs, files, overlapped >>

\* A variant of T_Restore that leaves the current directory where it is.
T_Restore_NoChdir(t) ==
    /\ threads[t].pc = "select"
    /\ cwd' = cwd
    /\ threads' = [threads EXCEPT ![t].pc = "results"]
    /\ UNCHANGED << single, dirs, files, ops, overlapped >>

\* Lines 243-246: the wait returns and os.chdir(cur_dir) puts the process
\* back into the directory this thread recorded on entry.
T_Restore(t) ==
    /\ threads[t].pc = "select"
    /\ cwd' = threads[t].cur_dir
    /\ threads' = [threads EXCEPT ![t].pc = "results"]
    /\ UNCHANGED << single, dirs, files, ops, overlapped >>

\* Lines 255-263: the child has exited with status 0 and the results are
\* returned.
T_Return(t) ==
    /\ threads[t].pc = "results"
    /\ threads' = [threads EXCEPT ![t] =
                      [IdleThread EXCEPT !.calls = threads[t].calls]]
    /\ UNCHANGED << single, cwd, dirs, files, ops, overlapped >>

\* Both instances wrap the same program and write the same file name.
InitConc ==
    /\ Init
    /\ cwd = PyStr("/home")
    /\ program = PyStr("RNAalifold")
    /\ self_filename = PyStr("input.aln")
    /\ self_base = PyNone
    /\ self_options = <<>>

NextConc ==
    \E t \in Threads :
        \/ T_Enter(t)
        \/ T_Chdir(t)
        \/ T_WriteInput(t)
        \/ T_Spawn(t)
        \/ T_Restore(t)
        \/ T_Return(t)

SpecConc == InitConc /\ [][NextConc]_vars

\* =================================================================== claims

\* The call has ended and the caller holds its value or its exception.
Ended == pc = "done"

\* C1: once a call has finished, the current directory equals the value it
\* had just before the call, on every exit path, exceptions raised between
\* the directory switch and the wait included.
C1_DirectoryRestoredOnEveryExit == Ended => cwd = pre.cwd

\* C2: when nothing makes the readiness wait return within the time budget,
\* the call fails with ProgramTimeOutError, the child is no longer running
\* when the error reaches the caller, and the current directory is the one
\* from before the call.
C2_TimeoutKillsAndRestores ==
    (Ended /\ rlist = <<>>) =>
        /\ outcome.kind = "raised"
        /\ outcome.exc = "ProgramTimeOutError"
        /\ proc \in {"killed", "exited"}
        /\ cwd = pre.cwd

\* C2 witness: a silent child (it wrote to stdout only) was killed on timeout.
C2_Witness ==
    /\ Ended
    /\ rlist = <<>>
    /\ proc = "killed"
    /\ stdout_data
    /\ outcome.exc = "ProgramTimeOutError"

\* C3: every run of the external program that ends with a non-zero exit
\* status makes the call fail with ProgramFailedError carrying the program
\* name and that exit status, without the results hook being invoked and
\* with the current directory restored.  Stated for the runs whose readiness
\* wait returned because a stream was ready.
C3_NonZeroExitFails ==
    (/\ Ended
     /\ rlist \notin {<<>>, Unbound}
     /\ proc = "exited"
     /\ exit_status # <<0>>) =>
        /\ outcome.kind = "raised"
        /\ outcome.exc = "ProgramFailedError"
        /\ outcome.program = program
        /\ outcome.code = exit_status
        /\ results_calls = <<>>
        /\ cwd = pre.cwd

C5_PredicateGatesResults ==
    /\ (Ended /\ Truthy(error_message)) =>
          /\ outcome.kind = "raised"
          /\ outcome.exc = "ProgramFailedError"
          /\ outcome.program = program
          /\ outcome.code = code
          /\ outcome.message = error_message
    /\ results_calls # <<>> => (code = <<0>> /\ ~Truthy(error_message))

\* The keys of an options mapping that the schema does not declare.
UnknownKeys(opts) == {opts[i].key : i \in DOMAIN opts} \ known_options

\* Nothing outside the call's frame has changed since the call began.
NoEffects ==
    /\ cwd = pre.cwd
    /\ dirs = pre.dirs
    /\ files = pre.files
    /\ spawned = <<>>
    /\ proc = "none"
    /\ temp_dir = PyNone

\* C6: a call with a program configured, valid raw input and an options
\* mapping holding a key outside the schema fails with UnknownOptionError
\* and changes nothing: no working directory, no directory switch, no input
\* file, no process.
C6_UnknownOptionNoEffects ==
    (pc # "idle" /\ Truthy(program) /\ raw_ok /\ UnknownKeys(options) # {}) =>
        /\ Ended
        /\ outcome.kind = "raised"
        /\ outcome.exc = "UnknownOptionError"
        /\ NoEffects

\* C6 witness: a second call, made with the current directory left at a
\* working directory by the first, is rejected for an unknown key.
C6_Witness ==
    /\ Ended
    /\ outcome.exc = "UnknownOptionError"
    /\ calls = 2
    /\ Len(options) = 2
    /\ UnknownKeys(options) # {}
    /\ options[1].key \in known_options

\* All orderings of a set of keys.
Orderings(keys) ==
    {q \in [1..Cardinality(keys) -> keys] : \A k \in keys : \E i \in DOMAIN q : q[i] = k}

\* The schema entries whose key is in the options with a rejected value.
Rejected(opts) ==
    {i \in DOMAIN self_options :
        /\ HasKey(opts, self_options[i].key)
        /\ ~pattern(self_options[i], Get(opts, self_options[i].key))}

\* C7: validate_options has exactly one of three outcomes: with a key
\* outside the schema, UnknownOptionError listing every such key (also when
\* a known key has an invalid value); otherwise, with a schema key whose
\* value its validator rejects, InvalidOptionError naming the first such key
\* in schema order; otherwise it returns True. It has no side effects.
C7_ValidateOptionsOutcome ==
    (pc # "idle" /\ Truthy(program) /\ raw_ok) =>
        IF UnknownKeys(options) # {}
        THEN /\ Ended
             /\ outcome.exc = "UnknownOptionError"
             /\ \E q \in Orderings(UnknownKeys(options)) :
                    outcome.text = "Options: " \o Join(q) \o " are unknown."
             /\ NoEffects
        ELSE IF Rejected(options) # {}
        THEN LET first == CHOOSE i \in Rejected(options) :
                              \A j \in Rejected(options) : i <= j
                 key == self_options[first].key
             IN /\ Ended
                /\ outcome.exc = "InvalidOptionError"
                /\ outcome.text = "Key " \o key \o " has invalid value "
                                  \o Str(Get(options, key))
                /\ NoEffects
        ELSE /\ outcome.exc \notin {"UnknownOptionError", "InvalidOptionError"}
             /\ temp_dir # PyNone

\* C7 witness: two known keys with rejected values, given in the reverse of
\* the schema's order; the error names the schema's first.
C7_Witness ==
    /\ Ended
    /\ outcome.exc = "InvalidOptionError"
    /\ Len(options) = 2
    /\ Cardinality(Rejected(options)) = 2
    /\ options[1].key = self_options[2].key
    /\ outcome.text = "Key " \o self_options[1].key \o " has invalid value "
                      \o Str(options[2].value)

\* The flag of an option by the convention: -k for a key of one character,
\* --key otherwise.
FlagFor(key) == PyStr((IF Len(key) = 1 THEN "-" ELSE "--") \o key)

\* C8: for every option of a validated mapping, generate_options emits a
\* flag token built from the option's key: '-' and the key for a key of one
\* character, '--' and the key otherwise.
C8_FlagBuiltFromKey ==
    arguments # <<>> =>
        \A i \in DOMAIN options :
            \E j \in DOMAIN arguments : arguments[j] = FlagFor(options[i].key)

\* The number of tokens an option takes: the flag, and the value unless it
\* is the boolean True.
Width(value) == IF value = PyTrue THEN 1 ELSE 2

\* The number of tokens of the first n options.
RECURSIVE Tokens(_, _)
Tokens(opts, n) == IF n = 0 THEN 0 ELSE Tokens(opts, n - 1) + Width(opts[n].value)

\* A flag token: a string that starts with a dash.
IsFlag(token) ==
    /\ token.type = "str"
    /\ Len(token.v) >= 2
    /\ SubSeq(token.v, 1, 1) = "-"

\* C9: generate_options emits for every option exactly one token, the flag,
\* when the value is the boolean True, and exactly two, the flag immediately
\* followed by the value, for every other value.
C9_TokensPerOption ==
    arguments # <<>> =>
        /\ Len(arguments) = 1 + Tokens(options, Len(options)) + 1
        /\ \A i \in DOMAIN options :
              LET at == 1 + Tokens(options, i - 1) + 1
              IN /\ IsFlag(arguments[at])
                 /\ options[i].value # PyTrue => arguments[at + 1] = options[i].value

\* C9 witness: a command line built from a True option, which takes one
\* token, followed by a string option, which takes two.
C9_Witness ==
    /\ arguments # <<>>
    /\ Len(options) = 2
    /\ options[1].value = PyTrue
    /\ options[2].value = PyStr("5")
    /\ Len(arguments) = 5
    /\ arguments[4] = PyStr("5")

\* C10: the command line is the program, then the option tokens, then the
\* positional arguments, which by default are the filename alone; it is the
\* command line the process is spawned with.
C10_CommandLineShape ==
    arguments # <<>> =>
        /\ arguments[1] = program
        /\ arguments[Len(arguments)] = self_filename
        /\ \A j \in 2..(Len(arguments) - 1) :
              \/ IsFlag(arguments[j])
              \/ \E i \in DOMAIN options : arguments[j] = options[i].value
        /\ Len(arguments) - 2 = Tokens(options, Len(options))
        /\ options = <<>> => arguments = <<program, self_filename>>
        /\ \A k \in DOMAIN spawned : spawned[k].args = arguments

\* C10 witness: a process spawned with options before the filename.
C10_Witness ==
    /\ proc = "running"
    /\ Len(spawned) = 1
    /\ Len(options) = 2
    /\ spawned[1].args[Len(arguments)] = self_filename
    /\ Len(arguments) >= 4

\* C11: the child's standard input is a pipe if and only if the stdin hook
\* returned content for this call; the content is written to the child
\* exactly when the hook returned it, and when the hook returned None no
\* pipe is opened and nothing is written.
C11_StdinPipeIffContent ==
    /\ \A k \in DOMAIN spawned : spawned[k].stdin = PIPE <=> content # PyNone
    /\ stdin_pipe # "none" <=> (spawned # <<>> /\ content # PyNone)
    /\ written \in {PyNone, content}
    /\ (pc \in {"select", "restore", "check", "results"} \/ (Ended /\ rlist # Unbound))
          => written = content

\* C11 witness: the hook returned content, the child has a pipe and the
\* content has been written to it.
C11_Witness ==
    /\ pc = "select"
    /\ proc = "running"
    /\ content = PyStr("data")
    /\ stdin_pipe = "open"
    /\ written = PyStr("data")

\* C12: with no program configured every call fails with ValueError before
\* anything else happens, whatever the raw input and the options: no
\* working directory, no directory switch, no input file, no process.
C12_NoProgramFailsFirst ==
    (pc # "idle" /\ ~Truthy(program)) =>
        /\ Ended
        /\ outcome.kind = "raised"
        /\ outcome.exc = "ValueError"
        /\ NoEffects
        /\ input_file = NoInputFile

\* C12 witness: no program, invalid raw input and an unknown option: the
\* call still fails with ValueError.
C12_Witness ==
    /\ Ended
    /\ program = PyNone
    /\ ~raw_ok
    /\ UnknownKeys(options) # {}
    /\ outcome.exc = "ValueError"

\* C13: when validate_input rejects the raw input, a call with a program
\* configured fails with InvalidInputError before any file or process is
\* touched, whatever the options hold, because input is checked first.
C13_InvalidInputFailsFirst ==
    (pc # "idle" /\ Truthy(program) /\ ~raw_ok) =>
        /\ Ended
        /\ outcome.kind = "raised"
        /\ outcome.exc = "InvalidInputError"
        /\ NoEffects
        /\ input_file = NoInputFile

\* C13 witness: rejected input together with an unknown option and a known
\* option with a rejected value.
C13_Witness ==
    /\ Ended
    /\ Truthy(program)
    /\ ~raw_ok
    /\ Len(options) = 2
    /\ UnknownKeys(options) # {}
    /\ Rejected(options) # {}
    /\ outcome.exc = "InvalidInputError"

\* The stages a failing call has not reached have left no trace.
StagesSkipped ==
    /\ outcome.exc \in {"ValueError", "InvalidInputError", "InvalidOptionsError"}
          => NoEffects /\ temp_dir = PyNone /\ input_file = NoInputFile
    /\ (outcome.exc = "OSError" /\ outcome.text = "chdir")
          => input_file = NoInputFile /\ arguments = <<>>
    /\ (outcome.exc \in {"IOError", "Exception"} /\ outcome.text \in {"open", "input_file"})
          => arguments = <<>> /\ stdin = PyNone
    /\ outcome.text \in {"chdir", "open", "input_file", "stdin", "Popen"}
          => spawned = <<>> /\ proc = "none" /\ written = PyNone
    /\ (outcome.exc = "IOError" /\ outcome.text = "write")
          => rlist = Unbound /\ written = PyNone
    /\ outcome.exc \in {"ProgramTimeOutError", "ProgramFailedError"}
          => Len(spawned) = 1 /\ rlist # Unbound
    /\ results_calls = <<>>

\* C14: a call starts the program at most once and never retries; a failure
\* at any stage ends the call at once, the remaining stages are skipped, and
\* the call has exactly one outcome: a returned result or one raised error.
C14_SingleShot ==
    [][ /\ Len(spawned') <= 1
        /\ Len(results_calls') <= 1
        /\ outcome'.kind # "none" <=> pc' = "done"
        /\ outcome.kind # "none" => (pc' = "idle" \/ pc' = pc)
        /\ outcome.kind # "none" => (outcome' = outcome \/ outcome' = NoOutcome)
        /\ outcome'.kind = "returned" <=> results_calls' # <<>>
        /\ outcome'.kind = "raised" => StagesSkipped'
      ]_vars

\* C14 witness: the program ran once and failed: one process, no result
\* built, one raised error.
C14_Witness ==
    /\ Ended
    /\ outcome.exc = "ProgramFailedError"
    /\ Len(spawned) = 1
    /\ results_calls = <<>>

\* C15: on every path that started a process, the current directory is
\* restored strictly after the process has terminated (it exited or was
\* killed on timeout) and strictly before the call returns or raises.
C15_RestoreAfterTermination ==
    [][ /\ (pc = "restore" /\ pc' = "check") => proc \in {"exited", "killed"}
        /\ (pc' = "done" /\ spawned' # <<>>) => cwd' = cur_dir'
      ]_vars

\* C16: whenever the results hook is invoked the process has terminated and
\* its exit status is known, also when the wait returned because the process
\* wrote to a watched stream while still running.
C16_ResultsAfterExit ==
    \A k \in DOMAIN results_calls :
        /\ results_calls[k].process.state = "exited"
        /\ results_calls[k].process.returncode # <<>>

\* C18: whenever a standard-input pipe to the child was opened for a call,
\* the pipe has been closed by the time the call returns or raises, on the
\* success, the program-failure and the timeout branch.
C18_StdinPipeClosedAtExit ==
    (Ended /\ spawned # <<>> /\ rlist # Unbound /\ spawned[1].stdin = PIPE)
        => stdin_pipe = "closed"

\* With a filename configured the input_file hook has run exactly once, in
\* the working directory, and the file is closed before a process exists;
\* the file is closed also when the hook raised.
InputFileOnceAndClosed ==
    /\ input_file.runs <= 1
    /\ pc \notin {"input", "write_input"} => input_file.handle # "open"
    /\ (self_filename # PyNone /\ (pc = "spawn" \/ spawned # <<>>)) =>
          /\ input_file = [handle |-> "closed", runs |-> 1]
          /\ [dir |-> temp_dir, name |-> self_filename] \in files
    /\ (Ended /\ outcome.text = "input_file") =>
          input_file = [handle |-> "closed", runs |-> 1]

\* Without a filename the hook does not run and no file is opened.
InputFileSkipped ==
    self_filename = PyNone => input_file = NoInputFile /\ files = pre.files

\* C17: with a filename configured, input_file runs exactly once per call,
\* inside the working directory, and the file is closed (even if writing
\* fails) strictly before the process is started; with filename None the
\* hook is not run, no file is opened, and the process is still started.
C17_InputFileBeforeSpawn ==
    /\ InputFileOnceAndClosed
    /\ InputFileSkipped
    /\ (self_filename = PyNone /\ pc = "spawn") => ENABLED Spawn

\* An invocation wrote its input file or started its process while the
\* current directory was not its own working directory.
Misplaced == \E o \in ops : o.cwd # o.temp_dir

\* All invocations have finished.
AllIdle == \A t \in Threads : threads[t].pc = "idle"

\* C19: with two invocations that have different working directories, an
\* interleaving of their directory switches and restores makes one of them
\* write its input file or start its process outside its own working
\* directory, or leaves the process in a directory other than the original
\* one after both have finished (C19_Witness); neither happens while the
\* invocations are strictly sequential and each finishes normally.
C19_SequentialIsSafe ==
    ~overlapped => /\ ~Misplaced
                   /\ AllIdle => cwd = PyStr("/home")

\* C19 witness: the two invocations overlapped, both have finished, one of
\* them wrote or spawned in a foreign directory and the process is not back
\* in the original directory.
C19_Witness ==
    /\ overlapped
    /\ AllIdle
    /\ Misplaced
    /\ \A t \in Threads : threads[t].calls >= 1
    /\ cwd # PyStr("/home")

\* A step in which the _program_failed_ hook runs (line 257).
ProgramFailedHookRuns == pc = "check" /\ rlist # <<>> /\ pc' # "check"

\* A step in which the results hook runs (line 263).
ResultsHookRuns == pc = "results" /\ results_calls' # results_calls

\* C21 as stated: whenever results or _program_failed_ runs, the current
\* directory has been restored to its value before the call, and the hook
\* never runs with the working directory as the current directory.
C21_HooksNeverInWorkingDirectory ==
    [][ (ProgramFailedHookRuns \/ ResultsHookRuns) =>
            /\ cwd = pre.cwd
            /\ cwd # temp_dir
      ]_vars

\* C21 amended: whenever results or _program_failed_ runs, the current
\* directory has been restored to the value recorded on entry; it is the
\* working directory exactly when the instance was given a directory and
\* the caller stood in that directory when the call was made, and never a
\* directory made by mkdtemp.
C21_HooksRunAfterRestore ==
    [][ (ProgramFailedHookRuns \/ ResultsHookRuns) =>
            /\ cwd = pre.cwd
            /\ cwd = cur_dir
            /\ cwd = temp_dir <=> (Truthy(self_base) /\ pre.cwd = self_base)
      ]_vars

\* C21 witness: a call made from the instance's own directory has returned
\* a result: both hooks ran, with the working directory current.
C21_Witness ==
    /\ Ended
    /\ outcome.kind = "returned"
    /\ results_calls # <<>>
    /\ error_message = PyFalse
    /\ Truthy(self_base)
    /\ pre.cwd = self_base
    /\ cwd = temp_dir

====
